---- MODULE Spec2Model ----
(***************************************************************************)
(* rgzip: canonical Huffman table (huffman/huffman_lut.rs), Huffman tree   *)
(* and decode (huffman/huffman_tree.rs, huffman/huffman_node.rs) and the   *)
(* gzip member / DEFLATE block header parser and Config::new               *)
(* (configuration.rs).                                                     *)
(*                                                                         *)
(* A behaviour runs one scenario, chosen in Init:                          *)
(*   "lut"  : build_huffman_lut on a list of symbol/length records;        *)
(*   "tree" : build_huffman_tree on a list of symbol/weight records, then  *)
(*            decode and build_symbol_length_pairs on the returned tree    *)
(*            and build_huffman_lut on the extracted records;              *)
(*   "gzip" : decompress over the bytes of a file;                         *)
(*   "config" : Config::new on a list of arguments.                        *)
(* CopiesSpec runs the copy of build_huffman_tree in lib.rs after the one  *)
(* of huffman/huffman_tree.rs, on the same records.                        *)
(***************************************************************************)
EXTENDS Integers, Sequences, FiniteSets, TLC

(***************************************************************************)
(* Bounds of the model.                                                    *)
(***************************************************************************)
MaxPairs == 3
MaxLength == 3
MaxRecords == 3
MaxWeight == 1
MaxBits == 2
MaxName == 2

\* characters of a file name before its ending
MaxStem == 2

(***************************************************************************)
(* huffman.rs: Bit, Bits, SymbolType, SymbolWeightPair, SymbolLengthPair.  *)
(***************************************************************************)
Bit == {0, 1}

SymbolType == 0..255

\* the symbols record i of a bounded input is drawn from: b'A' and the next
\* i - 1 symbols, which gives every pattern of equal and distinct symbols
SymbolsAt(i) == 65..(64 + i)

SymbolLengthPair(s, l) == [symbol |-> s, length |-> l]

SymbolWeightPair(s, w) == [symbol |-> s, weight |-> w]

SeqsUpTo(S, n) == UNION {[1..k -> S] : k \in 0..n}

RECURSIVE Pow2(_)
Pow2(n) == IF n <= 0 THEN 1 ELSE 2 * Pow2(n - 1)

\* the minimum of a non-empty set of integers (first key of a BTreeMap)
MinOf(S) == CHOOSE x \in S : \A y \in S : x <= y

\* BTreeMap::insert
MapInsert(m, k, v) == [x \in (DOMAIN m) \cup {k} |-> IF x = k THEN v ELSE m[x]]

EmptyMap == [x \in {} |-> 0]

(***************************************************************************)
(* huffman/huffman_lut.rs                                                  *)
(*                                                                         *)
(* Lengths, counts and codes are i32 in the source; with the lengths and   *)
(* the numbers of records of the model every value stays far below 2^31,   *)
(* so << 1 is * 2 and no addition overflows.                               *)
(***************************************************************************)

\* the loop of build_lengths_counts over the lengths from index i on
RECURSIVE lengths_counts_loop(_, _, _)
lengths_counts_loop(pairs, i, counts) ==
    IF i > Len(pairs) THEN counts
    ELSE LET length == pairs[i].length
             count == IF length \in DOMAIN counts THEN counts[length] ELSE 0
         IN lengths_counts_loop(pairs, i + 1, MapInsert(counts, length, count + 1))

build_lengths_counts(pairs) ==
    MapInsert(lengths_counts_loop(pairs, 1, EmptyMap), 0, 0)

\* the loop of build_lengths_codes over the keys still to visit, ascending
RECURSIVE lengths_codes_loop(_, _, _, _, _)
lengths_codes_loop(counts, keys, code, previous, codes) ==
    IF keys = {} THEN codes
    ELSE LET length == MinOf(keys)
             code1 == (code + counts[previous]) * 2
         IN lengths_codes_loop(counts, keys \ {length}, code1, length,
                               MapInsert(codes, length, code1))

build_lengths_codes(counts) ==
    lengths_codes_loop(counts, DOMAIN counts, 0, 0, EmptyMap)

\* BitAt with the mask 1 << (i + 1)
BitAt_shifted(numerical_code, i) == (numerical_code \div Pow2(i + 1)) % 2

\* numerical_code & (1 << i) == 0 ? Bit::Zero : Bit::One
BitAt(numerical_code, i) == (numerical_code \div Pow2(i)) % 2

\* the while loop of build_lookup_table: i counts down from length - 1 to 0
RECURSIVE code_bits_loop(_, _)
code_bits_loop(numerical_code, i) ==
    IF i >= 0 THEN <<BitAt(numerical_code, i)>> \o code_bits_loop(numerical_code, i - 1)
    ELSE <<>>

\* the for loop of build_lookup_table from record k on; yields the table and
\* the mutated lengths_codes
RECURSIVE lookup_table_loop(_, _, _, _)
lookup_table_loop(pairs, k, codes, table) ==
    IF k > Len(pairs) THEN [lookup_table |-> table, lengths_codes |-> codes]
    ELSE LET symbol == pairs[k].symbol
             length == pairs[k].length
             numerical_code == codes[length]
             code == code_bits_loop(numerical_code, length - 1)
         IN lookup_table_loop(pairs, k + 1,
                              [codes EXCEPT ![length] = numerical_code + 1],
                              MapInsert(table, symbol, code))

build_lookup_table(pairs, codes) == lookup_table_loop(pairs, 1, codes, EmptyMap)

(***************************************************************************)
(* huffman/huffman_node.rs                                                 *)
(***************************************************************************)
Lnode(s, w) == [kind |-> "Lnode", symbol |-> s, weight |-> w]

Inode(l, r, w) ==
    [kind |-> "Inode", left_child |-> l, right_child |-> r, cached_weight |-> w]

\* HuffmanNode::weight
weight(node) == IF node.kind = "Inode" THEN node.cached_weight ELSE node.weight

\* struct Decode, and the abort of expect("Not enough bits to decode")
Decode(s, bits) == [kind |-> "decoded", symbol |-> s, remaining_bits |-> bits]

DecodePanic == [kind |-> "panic", symbol |-> 0, remaining_bits |-> <<>>]

NoDecode == [kind |-> "none", symbol |-> 0, remaining_bits |-> <<>>]

\* child with the two arms exchanged
child_swapped(node, current_bit) ==
    IF current_bit = 0 THEN node.right_child ELSE node.left_child

\* the match on current_bit in decode: Bit::Zero => left_child, Bit::One => right_child
child(node, current_bit) ==
    IF current_bit = 0 THEN node.left_child ELSE node.right_child

\* HuffmanNode::decode
RECURSIVE decode(_, _)
decode(node, bits) ==
    IF node.kind = "Inode"
    THEN IF bits = <<>> THEN DecodePanic
         ELSE LET current_bit == Head(bits)
              IN decode(child(node, current_bit), Tail(bits))
    ELSE Decode(node.symbol, bits)

RECURSIVE build_symbol_length_pairs_helper(_, _)

\* build_symbol_length_pairs_helper that passes length, not length + 1, to
\* the right child
build_symbol_length_pairs_helper_flat(node, length) ==
    IF node.kind = "Inode"
    THEN build_symbol_length_pairs_helper(node.left_child, length + 1)
         \o build_symbol_length_pairs_helper(node.right_child, length)
    ELSE <<SymbolLengthPair(node.symbol, length)>>

\* HuffmanNode::build_symbol_length_pairs_helper: the records pushed to result
build_symbol_length_pairs_helper(node, length) ==
    IF node.kind = "Inode"
    THEN build_symbol_length_pairs_helper(node.left_child, length + 1)
         \o build_symbol_length_pairs_helper(node.right_child, length + 1)
    ELSE <<SymbolLengthPair(node.symbol, length)>>

build_symbol_length_pairs(node) == build_symbol_length_pairs_helper(node, 0)

(***************************************************************************)
(* huffman/huffman_tree.rs                                                 *)
(***************************************************************************)

\* BinaryHeap<WrappedHuffmanNode>::pop can return the item at index i: by
\* WrappedHuffmanNode::cmp the greatest item is one of least weight; which
\* one of several of equal weight is not fixed by the ordering
\* pop that returns any item of the heap
CanPop_any(heap, i) == TRUE

CanPop(heap, i) == \A j \in 1..Len(heap) : weight(heap[i]) <= weight(heap[j])

\* pop that leaves the popped item in the heap
RemoveAt_kept(heap, i) == heap

RemoveAt(heap, i) == SubSeq(heap, 1, i - 1) \o SubSeq(heap, i + 1, Len(heap))

\* the forest collected from the records: one Lnode per record
CollectForest(pairs) == [i \in 1..Len(pairs) |-> Lnode(pairs[i].symbol, pairs[i].weight)]

NoTree == [kind |-> "none"]

(***************************************************************************)
(* lib.rs, mod huffman: the copy of the builder in the library crate.  Its *)
(* Inode, Lnode and weight are those of huffman/huffman_node.rs.           *)
(***************************************************************************)

\* BinaryHeap<HuffmanNode>::pop can return the item at index i: the heap is
\* a max-heap and HuffmanNode::cmp compares the weights as they are, so the
\* greatest item is one of greatest weight
LibCanPop(heap, i) == \A j \in 1..Len(heap) : weight(heap[i]) >= weight(heap[j])

(***************************************************************************)
(* configuration.rs: decompress                                            *)
(***************************************************************************)
NoOutcome == [kind |-> "none", what |-> ""]

Ok == [kind |-> "Ok", what |-> ""]

\* return Err(..) and the ? operator
Err(message) == [kind |-> "Err", what |-> message]

\* expect(..) on None and panic!(..)
Panic(message) == [kind |-> "panic", what |-> message]

\* str::from_utf8 succeeds; exact for the file names of the model, made of
\* ASCII bytes and 0xFF (0xFF occurs in no valid UTF-8 text)
from_utf8_ok(name) == \A i \in 1..Len(name) : name[i] < 128

bfinal_set(header) == header % 2 = 1

btype_0_set(header) == (header \div 2) % 2 = 1

btype_1_set(header) == (header \div 4) % 2 = 1

\* the arm of match (btype_0_set, btype_1_set) taken, named as its comment
\* names it; "panic" for the arm (true, true)
block_arm(header) ==
    CASE ~btype_0_set(header) /\ ~btype_1_set(header) -> "no compression"
      [] ~btype_0_set(header) /\ btype_1_set(header) -> "fixed Huffman codes"
      [] btype_0_set(header) /\ ~btype_1_set(header) -> "dynamic Huffman codes"
      [] btype_0_set(header) /\ btype_1_set(header) -> "panic"

\* the values the bytes of the file are drawn from, per field
FieldBytes == {0, 3, 7, 8, 31, 139}

MTimeBytes == {0, 255}

XflBytes == {0, 2, 4}

NameBytes == {0, 97, 255}

HeaderBytes == (0..15) \cup (248..255)

(***************************************************************************)
(* configuration.rs: Config::new                                           *)
(***************************************************************************)

\* ".rgz" as the bytes of its UTF-8 text
COMPRESSED_FILE_EXTENSION == <<46, 114, 103, 122>>

NoConfig == [kind |-> "none", what |-> ""]

\* Ok(Config { filename, mode })
OkConfig(name, mode) == [kind |-> "Ok", what |-> "", filename |-> name, mode |-> mode]

\* str::is_char_boundary: the start, the end, or a byte that is not a
\* continuation byte 10xxxxxx
is_char_boundary(text, index) ==
    \/ index = 0
    \/ index = Len(text)
    \/ index < Len(text) /\ text[index + 1] \notin 128..191

\* has_compressed_file_extension: len - ext_len is a subtraction of usize.
\* When len < ext_len a build with overflow checks panics at the
\* subtraction; a build without them wraps to a value near 2^64, beyond the
\* end of every string, and the slice panics.  The slice also panics when
\* its start is inside a character.  The result is the panic or the value
\* of the comparison
has_compressed_file_extension(name, overflow_checks) ==
    LET len == Len(name)
        ext_len == Len(COMPRESSED_FILE_EXTENSION)
    IN IF len < ext_len
       THEN IF overflow_checks THEN Panic("attempt to subtract with overflow")
            ELSE Panic("byte index is out of bounds")
       ELSE IF ~is_char_boundary(name, len - ext_len)
       THEN Panic("byte index is not a char boundary")
       ELSE [kind |-> "bool",
             value |-> SubSeq(name, len - ext_len + 1, len) = COMPRESSED_FILE_EXTENSION]

\* the characters a file name starts with: 'a' and the two bytes of U+00E9
StemChars == {<<97>>, <<195, 169>>}

RECURSIVE Stems(_)
\* the texts of up to n of these characters
Stems(n) ==
    IF n = 0 THEN {<<>>}
    ELSE Stems(n - 1) \cup {stem \o c : stem \in Stems(n - 1), c \in StemChars}

\* what a file name ends with: the extension, parts of it and near misses
Endings ==
    {<<>>, <<46>>, <<46, 114>>, <<46, 114, 103>>, <<46, 114, 103, 122>>,
     <<46, 114, 103, 120>>, <<114, 103, 122>>, <<46, 114, 103, 122, 97>>}

FileNames == {stem \o ending : stem \in Stems(MaxStem), ending \in Endings}

\* the program name alone, or followed by a file name and at most one more
\* argument; env::args() holds at least the program name, an empty list is
\* still a value of &[String]
ArgsInputs ==
    {<<>>, <<<<97>>>>}
    \cup {<<<<97>>, name>> : name \in FileNames}
    \cup {<<<<97>>, name, <<97>>>> : name \in FileNames}

VARIABLES scenario,
          symbol_length_pairs, lengths_counts, base_codes, lengths_codes,
          lookup_table, lut_pc,
          symbol_weight_pairs, forest, tree, tree_pc, bits_in, decoded,
          lib_forest, lib_tree, lib_pc,
          args, config,
          consumed, exhausted, filename, block_type, gz_pc, outcome

lut_vars == <<symbol_length_pairs, lengths_counts, base_codes, lengths_codes,
              lookup_table, lut_pc>>

tree_vars == <<symbol_weight_pairs, forest, tree, tree_pc>>

decode_vars == <<bits_in, decoded>>

lib_vars == <<lib_forest, lib_tree, lib_pc>>

config_vars == <<args, config>>

gz_vars == <<consumed, exhausted, filename, block_type, gz_pc, outcome>>

vars == <<scenario, lut_vars, tree_vars, decode_vars, lib_vars, config_vars, gz_vars>>

\* symbol_length_pairs_RFC_1951 of the tests
RFCPairs ==
    <<SymbolLengthPair(65, 3), SymbolLengthPair(66, 3), SymbolLengthPair(67, 3),
      SymbolLengthPair(68, 3), SymbolLengthPair(69, 3), SymbolLengthPair(70, 2),
      SymbolLengthPair(71, 4), SymbolLengthPair(72, 4)>>

PairRecords == {SymbolLengthPair(s, l) : s \in SymbolsAt(MaxPairs), l \in 0..MaxLength}

PairInputs ==
    {pairs \in SeqsUpTo(PairRecords, MaxPairs) :
        \A i \in 1..Len(pairs) : pairs[i].symbol \in SymbolsAt(i)}
    \cup {RFCPairs}

\* the records of tests::simple_forest
SimpleForest ==
    <<SymbolWeightPair(65, 10), SymbolWeightPair(66, 20), SymbolWeightPair(67, 5)>>

\* five records of which one weighs as much as the four others together:
\* its leaf has depth 1 and theirs have depth 3
SkewedForest ==
    <<SymbolWeightPair(65, 4), SymbolWeightPair(66, 1), SymbolWeightPair(67, 1),
      SymbolWeightPair(68, 1), SymbolWeightPair(69, 1)>>

\* four records whose merges meet a tie between a leaf and a merged node,
\* both of weight 2: the two resolutions give trees of different shapes
TiedForest ==
    <<SymbolWeightPair(65, 1), SymbolWeightPair(66, 1), SymbolWeightPair(67, 1),
      SymbolWeightPair(68, 2)>>

WeightRecords == {SymbolWeightPair(s, w) : s \in SymbolsAt(MaxRecords), w \in 0..MaxWeight}

\* record i carries b'A' again or a symbol of its own: all symbols distinct,
\* all equal, or some of them equal
WeightInputs ==
    {pairs \in SeqsUpTo(WeightRecords, MaxRecords) :
        \A i \in 1..Len(pairs) : pairs[i].symbol \in {65, 64 + i}}
    \cup {SimpleForest, SkewedForest, TiedForest}

BitInputs == SeqsUpTo(Bit, MaxBits)

LutIdle ==
    /\ lengths_counts = EmptyMap
    /\ base_codes = EmptyMap
    /\ lengths_codes = EmptyMap
    /\ lookup_table = EmptyMap

GzIdle ==
    /\ consumed = <<>>
    /\ exhausted = FALSE
    /\ filename = <<>>
    /\ block_type = "none"
    /\ gz_pc = "idle"
    /\ outcome = NoOutcome

ConfigIdle ==
    /\ args = <<>>
    /\ config = NoConfig

LibIdle ==
    /\ lib_forest = <<>>
    /\ lib_tree = NoTree
    /\ lib_pc = "idle"

TreeIdle ==
    /\ symbol_weight_pairs = <<>>
    /\ forest = <<>>
    /\ tree = NoTree
    /\ tree_pc = "idle"
    /\ bits_in = <<>>
    /\ decoded = NoDecode

InitLut ==
    /\ scenario = "lut"
    /\ symbol_length_pairs \in PairInputs
    /\ LutIdle
    /\ lut_pc = "ready"
    /\ TreeIdle
    /\ LibIdle
    /\ ConfigIdle
    /\ GzIdle

InitTree ==
    /\ scenario = "tree"
    /\ symbol_weight_pairs \in WeightInputs
    /\ forest = <<>>
    /\ tree = NoTree
    /\ tree_pc = "start"
    /\ bits_in = <<>>
    /\ decoded = NoDecode
    /\ symbol_length_pairs = <<>>
    /\ LutIdle
    /\ lut_pc = "idle"
    /\ LibIdle
    /\ ConfigIdle
    /\ GzIdle

\* Config::new is called with args
InitConfig ==
    /\ scenario = "config"
    /\ args \in ArgsInputs
    /\ config = NoConfig
    /\ symbol_length_pairs = <<>>
    /\ LutIdle
    /\ lut_pc = "idle"
    /\ TreeIdle
    /\ LibIdle
    /\ GzIdle

\* decompress is entered; the bytes of the file are revealed as bytes.next()
\* yields them: consumed is the part of the file read so far, exhausted
\* says that next() has returned None
InitGzip ==
    /\ scenario = "gzip"
    /\ consumed = <<>>
    /\ exhausted = FALSE
    /\ filename = <<>>
    /\ block_type = "none"
    /\ gz_pc = "read"
    /\ outcome = NoOutcome
    /\ symbol_length_pairs = <<>>
    /\ LutIdle
    /\ lut_pc = "idle"
    /\ TreeIdle
    /\ LibIdle
    /\ ConfigIdle

\* HuffmanLUT::build_huffman_lut
BuildHuffmanLut ==
    /\ lut_pc = "ready"
    /\ LET counts == build_lengths_counts(symbol_length_pairs)
           codes == build_lengths_codes(counts)
           built == build_lookup_table(symbol_length_pairs, codes)
       IN /\ lengths_counts' = counts
          /\ base_codes' = codes
          /\ lengths_codes' = built.lengths_codes
          /\ lookup_table' = built.lookup_table
    /\ lut_pc' = "built"
    /\ UNCHANGED <<scenario, config_vars, lib_vars, symbol_length_pairs, tree_vars, decode_vars, gz_vars>>

\* build_huffman_tree, entry: collect the forest; panic when it has fewer
\* than 2 items
TreeCollect ==
    /\ tree_pc = "start"
    /\ forest' = CollectForest(symbol_weight_pairs)
    /\ tree_pc' = IF Len(forest') < 2 THEN "panic" ELSE "loop"
    /\ UNCHANGED <<scenario, config_vars, lib_vars, lut_vars, symbol_weight_pairs, tree, decode_vars, gz_vars>>

\* TreeMerge with the two popped items attached the other way round
TreeMerge_swapped ==
    /\ tree_pc = "loop"
    /\ Len(forest) > 1
    /\ \E i \in 1..Len(forest) :
          /\ CanPop(forest, i)
          /\ LET left_child == forest[i]
                 forest1 == RemoveAt(forest, i)
             IN \E j \in 1..Len(forest1) :
                   /\ CanPop(forest1, j)
                   /\ LET right_child == forest1[j]
                          forest2 == RemoveAt(forest1, j)
                          cached_weight == weight(left_child) + weight(right_child)
                          new_tree == Inode(right_child, left_child, cached_weight)
                      IN forest' = Append(forest2, new_tree)
    /\ UNCHANGED <<scenario, config_vars, lib_vars, lut_vars, symbol_weight_pairs, tree, tree_pc, decode_vars, gz_vars>>

\* TreeMerge with the weight of the left child alone cached in the new node
TreeMerge_leftweight ==
    /\ tree_pc = "loop"
    /\ Len(forest) > 1
    /\ \E i \in 1..Len(forest) :
          /\ CanPop(forest, i)
          /\ LET left_child == forest[i]
                 forest1 == RemoveAt(forest, i)
             IN \E j \in 1..Len(forest1) :
                   /\ CanPop(forest1, j)
                   /\ LET right_child == forest1[j]
                          forest2 == RemoveAt(forest1, j)
                          cached_weight == weight(left_child)
                          new_tree == Inode(left_child, right_child, cached_weight)
                      IN forest' = Append(forest2, new_tree)
    /\ UNCHANGED <<scenario, config_vars, lib_vars, lut_vars, symbol_weight_pairs, tree, tree_pc, decode_vars, gz_vars>>

\* build_huffman_tree, one iteration of while forest.len() > 1
TreeMerge ==
    /\ tree_pc = "loop"
    /\ Len(forest) > 1
    /\ \E i \in 1..Len(forest) :
          /\ CanPop(forest, i)
          /\ LET left_child == forest[i]
                 forest1 == RemoveAt(forest, i)
             IN \E j \in 1..Len(forest1) :
                   /\ CanPop(forest1, j)
                   /\ LET right_child == forest1[j]
                          forest2 == RemoveAt(forest1, j)
                          cached_weight == weight(left_child) + weight(right_child)
                          new_tree == Inode(left_child, right_child, cached_weight)
                      IN forest' = Append(forest2, new_tree)
    /\ UNCHANGED <<scenario, config_vars, lib_vars, lut_vars, symbol_weight_pairs, tree, tree_pc, decode_vars, gz_vars>>

\* build_huffman_tree, exit of the loop: the last item is the tree
TreeReturn ==
    /\ tree_pc = "loop"
    /\ Len(forest) <= 1
    /\ tree' = forest[1]
    /\ forest' = <<>>
    /\ tree_pc' = "done"
    /\ UNCHANGED <<scenario, config_vars, lib_vars, lut_vars, symbol_weight_pairs, decode_vars, gz_vars>>

\* HuffmanNode::decode on the returned tree
DecodeBits ==
    /\ tree_pc = "done"
    /\ decoded.kind = "none"
    /\ lut_pc = "idle"
    /\ \E bits \in BitInputs :
          /\ bits_in' = bits
          /\ decoded' = decode(tree, bits)
    /\ UNCHANGED <<scenario, config_vars, lib_vars, lut_vars, tree_vars, gz_vars>>

\* HuffmanNode::build_symbol_length_pairs on the returned tree
ExtractSymbolLengthPairs ==
    /\ tree_pc = "done"
    /\ lut_pc = "idle"
    /\ decoded.kind = "none"
    /\ symbol_length_pairs' = build_symbol_length_pairs(tree)
    /\ lut_pc' = "ready"
    /\ UNCHANGED <<scenario, config_vars, lib_vars, lengths_counts, base_codes, lengths_codes, lookup_table,
                   tree_vars, decode_vars, gz_vars>>

\* lib.rs, build_huffman_tree on the same records, entry: collect the
\* forest; panic when it has fewer than 2 items
LibTreeCollect ==
    /\ tree_pc \in {"done", "panic"}
    /\ lib_pc = "idle"
    /\ lib_forest' = CollectForest(symbol_weight_pairs)
    /\ lib_pc' = IF Len(lib_forest') < 2 THEN "panic" ELSE "loop"
    /\ UNCHANGED <<scenario, config_vars, lut_vars, tree_vars, decode_vars, lib_tree, gz_vars>>

\* lib.rs, build_huffman_tree, one iteration of while forest.len() > 1
LibTreeMerge ==
    /\ lib_pc = "loop"
    /\ Len(lib_forest) > 1
    /\ \E i \in 1..Len(lib_forest) :
          /\ LibCanPop(lib_forest, i)
          /\ LET left_child == lib_forest[i]
                 forest1 == RemoveAt(lib_forest, i)
             IN \E j \in 1..Len(forest1) :
                   /\ LibCanPop(forest1, j)
                   /\ LET right_child == forest1[j]
                          forest2 == RemoveAt(forest1, j)
                          cached_weight == weight(left_child) + weight(right_child)
                          new_tree == Inode(left_child, right_child, cached_weight)
                      IN lib_forest' = Append(forest2, new_tree)
    /\ UNCHANGED <<scenario, config_vars, lut_vars, tree_vars, decode_vars, lib_tree, lib_pc, gz_vars>>

\* lib.rs, build_huffman_tree, exit of the loop
LibTreeReturn ==
    /\ lib_pc = "loop"
    /\ Len(lib_forest) <= 1
    /\ lib_tree' = lib_forest[1]
    /\ lib_forest' = <<>>
    /\ lib_pc' = "done"
    /\ UNCHANGED <<scenario, config_vars, lut_vars, tree_vars, decode_vars, gz_vars>>

\* Config::new
ConfigNew ==
    /\ scenario = "config"
    /\ config = NoConfig
    /\ IF Len(args) < 2
       THEN config' = Err("not enough arguments")
       ELSE \E overflow_checks \in BOOLEAN :
               LET name == args[2]
                   has_extension == has_compressed_file_extension(name, overflow_checks)
               IN config' = IF has_extension.kind = "panic" THEN has_extension
                            ELSE IF has_extension.value
                            THEN OkConfig(name, "Decompression")
                            ELSE OkConfig(name, "Compression")
    /\ UNCHANGED <<scenario, lut_vars, tree_vars, decode_vars, lib_vars, args, gz_vars>>

\* bytes.next() yields the byte b of the file
Yield(b) ==
    /\ ~exhausted
    /\ consumed' = Append(consumed, b)
    /\ UNCHANGED exhausted

\* bytes.next() yields None: the file has no more bytes
YieldNone ==
    /\ exhausted' = TRUE
    /\ UNCHANGED consumed

Finish(result) ==
    /\ outcome' = result
    /\ gz_pc' = "done"

\* one field of the fixed header: next().expect(missing), then the check of
\* its value when the field has one (required # -1)
ReadField(then, choices, required, mismatch, missing) ==
    /\ \/ /\ YieldNone
          /\ Finish(Panic(missing))
       \/ \E b \in choices :
             /\ Yield(b)
             /\ IF required # -1 /\ b # required
                THEN Finish(Err(mismatch))
                ELSE gz_pc' = then /\ UNCHANGED outcome
    /\ UNCHANGED <<scenario, config_vars, lib_vars, lut_vars, tree_vars, decode_vars, filename, block_type>>

\* let bytes = fs::read(config.filename)?
ReadFile ==
    /\ gz_pc = "read"
    /\ \/ Finish(Err("fs::read"))
       \/ gz_pc' = "id1" /\ UNCHANGED outcome
    /\ UNCHANGED <<scenario, config_vars, lib_vars, lut_vars, tree_vars, decode_vars,
                   consumed, exhausted, filename, block_type>>

ReadID1 ==
    /\ gz_pc = "id1"
    /\ ReadField("id2", FieldBytes, 31, "ID1 does not match",
                 "This file does not contain ID1")

ReadID2 ==
    /\ gz_pc = "id2"
    /\ ReadField("cm", FieldBytes, 139, "ID2 does not match",
                 "This file does not contain ID2")

\* ReadCM without the check of the value
ReadCM_unchecked ==
    /\ gz_pc = "cm"
    /\ ReadField("flg", FieldBytes, -1, "", "This file does not contain CM")

ReadCM ==
    /\ gz_pc = "cm"
    /\ ReadField("flg", FieldBytes, 8, "Only 0x8 is a valid CM standing for deflate",
                 "This file does not contain CM")

ReadFLG ==
    /\ gz_pc = "flg"
    /\ ReadField("mtime", FieldBytes, 8,
                 "Only 0x8 is a valid FLG standing for original filename",
                 "This file does not contain FLG")

\* mtime_0 .. mtime_3: four bytes, none of them checked
ReadMTIME ==
    /\ gz_pc = "mtime"
    /\ ReadField(IF Len(consumed) = 7 THEN "xfl" ELSE "mtime", MTimeBytes, -1, "",
                 "This file does not contain MTIME")

\* a value of XFL other than 0 is only reported by println!
ReadXFL ==
    /\ gz_pc = "xfl"
    /\ ReadField("os", XflBytes, -1, "", "This file does not contain XFL")

ReadOS ==
    /\ gz_pc = "os"
    /\ ReadField("filename", FieldBytes, 3, "Only 0x3 is a valid OS standing for Unix",
                 "This file does not contain OS")

\* after the loop: let filename = str::from_utf8(&filename)?
AfterFilename ==
    IF from_utf8_ok(filename)
    THEN gz_pc' = "header" /\ UNCHANGED outcome
    ELSE Finish(Err("str::from_utf8"))

\* one iteration of while let Some(byte) = bytes.next(), or its exit
ReadFilename ==
    /\ gz_pc = "filename"
    /\ \/ /\ YieldNone
          /\ AfterFilename
          /\ UNCHANGED filename
       \/ \E b \in NameBytes :
             /\ Yield(b)
             /\ IF b = 0
                THEN AfterFilename /\ UNCHANGED filename
                ELSE /\ Len(filename) < MaxName
                     /\ filename' = Append(filename, b)
                     /\ UNCHANGED <<gz_pc, outcome>>
    /\ UNCHANGED <<scenario, config_vars, lib_vars, lut_vars, tree_vars, decode_vars, block_type>>

\* the block header byte, the check of BFINAL and the match on BTYPE; then
\* Ok(())
ReadBlockHeader ==
    /\ gz_pc = "header"
    /\ \/ /\ YieldNone
          /\ Finish(Panic("This block does not contain an header"))
          /\ UNCHANGED block_type
       \/ \E header \in HeaderBytes :
             /\ Yield(header)
             /\ IF ~bfinal_set(header)
                THEN /\ Finish(Panic("This implementation only supports one block compressed files for now"))
                     /\ UNCHANGED block_type
                ELSE IF block_arm(header) = "panic"
                THEN /\ Finish(Panic("BTYPE is 11"))
                     /\ UNCHANGED block_type
                ELSE /\ block_type' = block_arm(header)
                     /\ Finish(Ok)
    /\ UNCHANGED <<scenario, config_vars, lib_vars, lut_vars, tree_vars, decode_vars, filename>>

Init == InitLut \/ InitTree \/ InitGzip \/ InitConfig

Next ==
    \/ BuildHuffmanLut
    \/ TreeCollect
    \/ TreeMerge
    \/ TreeReturn
    \/ DecodeBits
    \/ ExtractSymbolLengthPairs
    \/ ConfigNew
    \/ ReadFile
    \/ ReadID1
    \/ ReadID2
    \/ ReadCM
    \/ ReadFLG
    \/ ReadMTIME
    \/ ReadXFL
    \/ ReadOS
    \/ ReadFilename
    \/ ReadBlockHeader

Spec == Init /\ [][Next]_vars

\* build_huffman_tree alone, from its call to its return or panic.  The
\* function is straight-line sequential code: a step that is enabled is
\* taken, which is weak fairness of each of its three steps
TreeNext ==
    \/ TreeCollect
    \/ TreeMerge
    \/ TreeReturn

\* the two copies of build_huffman_tree called on the same records, the
\* one of huffman/huffman_tree.rs first and the one of lib.rs after it
CopiesNext ==
    \/ TreeCollect
    \/ TreeMerge
    \/ TreeReturn
    \/ LibTreeCollect
    \/ LibTreeMerge
    \/ LibTreeReturn

CopiesSpec == InitTree /\ [][CopiesNext]_vars

BuildSpec ==
    /\ InitTree
    /\ [][TreeNext]_vars
    /\ WF_vars(TreeCollect)
    /\ WF_vars(TreeMerge)
    /\ WF_vars(TreeReturn)

(***************************************************************************)
(* Properties of the canonical table (huffman/huffman_lut.rs).             *)
(***************************************************************************)
IsPrefix(a, b) == Len(a) <= Len(b) /\ SubSeq(b, 1, Len(a)) = a

PairIndices == 1..Len(symbol_length_pairs)

LengthsPresent == {symbol_length_pairs[i].length : i \in PairIndices}

CountOfLength(l) == Cardinality({i \in PairIndices : symbol_length_pairs[i].length = l})

DistinctSymbols ==
    \A i, j \in PairIndices :
        i # j => symbol_length_pairs[i].symbol # symbol_length_pairs[j].symbol

LongestLength == IF LengthsPresent = {} THEN 0
                 ELSE CHOOSE l \in LengthsPresent : \A m \in LengthsPresent : m <= l

RECURSIVE KraftSum(_, _)
\* the sum over the records from index i on of 2^(LongestLength - length)
KraftSum(pairs, i) ==
    IF i > Len(pairs) THEN 0
    ELSE Pow2(LongestLength - pairs[i].length) + KraftSum(pairs, i + 1)

NotOverSubscribed == KraftSum(symbol_length_pairs, 1) <= Pow2(LongestLength)

\* C1: for records with pairwise-distinct symbols, all lengths >= 1 and a
\* length distribution that is not over-subscribed, the table built by
\* build_huffman_lut is prefix-free, also when a length between the shortest
\* and the longest used length has no symbol.
C1_PrefixFree ==
    (/\ lut_pc = "built"
     /\ DistinctSymbols
     /\ \A i \in PairIndices : symbol_length_pairs[i].length >= 1
     /\ NotOverSubscribed)
    => \A s1, s2 \in DOMAIN lookup_table :
          s1 # s2 => /\ ~IsPrefix(lookup_table[s1], lookup_table[s2])
                     /\ ~IsPrefix(lookup_table[s2], lookup_table[s1])

\* RFC 1951 section 3.2.2, step 2: next_code[bits], run over every integer
\* length 1..bits, with bl_count 0 for the lengths no record uses
RECURSIVE RFCNextCode(_)
RFCNextCode(bits) ==
    IF bits <= 0 THEN 0
    ELSE (RFCNextCode(bits - 1)
          + (IF bits - 1 >= 1 THEN CountOfLength(bits - 1) ELSE 0)) * 2

ExpectedLengthsCounts ==
    [l \in {0} \cup {m \in LengthsPresent : m > 0} |->
        IF l = 0 THEN 0 ELSE CountOfLength(l)]

\* C2: build_lengths_counts returns {0 -> 0} plus the number of records of
\* each positive length present, and build_lengths_codes gives every present
\* length L >= 1 the RFC 1951 first code next_code[L].
C2_RFCBaseCodes ==
    lut_pc = "built" =>
        /\ lengths_counts = ExpectedLengthsCounts
        /\ \A l \in DOMAIN base_codes : l >= 1 => base_codes[l] = RFCNextCode(l)

RECURSIVE BitsValue(_)
\* the integer a bit sequence spells, most significant bit first
BitsValue(bits) ==
    IF bits = <<>> THEN 0
    ELSE 2 * BitsValue(SubSeq(bits, 1, Len(bits) - 1)) + bits[Len(bits)]

EarlierSameLength(i) ==
    Cardinality({j \in 1..(i - 1) :
                    symbol_length_pairs[j].length = symbol_length_pairs[i].length})

\* record i is the last record of its symbol: the one whose code the table keeps
LastOfSymbol(i) ==
    \A j \in (i + 1)..Len(symbol_length_pairs) :
        symbol_length_pairs[j].symbol # symbol_length_pairs[i].symbol

\* lookup_table_RFC_1951 of the tests
RFCTable ==
    (65 :> <<0, 1, 0>>) @@ (66 :> <<0, 1, 1>>) @@ (67 :> <<1, 0, 0>>) @@
    (68 :> <<1, 0, 1>>) @@ (69 :> <<1, 1, 0>>) @@ (70 :> <<0, 0>>) @@
    (71 :> <<1, 1, 1, 0>>) @@ (72 :> <<1, 1, 1, 1>>)

\* what build_lookup_table does besides the value of the codes: L bits per
\* record, only the base code of L advanced, the RFC table for the RFC records
AssignmentShape ==
    /\ DOMAIN lookup_table = {symbol_length_pairs[i].symbol : i \in PairIndices}
    /\ \A i \in PairIndices :
          LastOfSymbol(i) =>
              Len(lookup_table[symbol_length_pairs[i].symbol])
                  = symbol_length_pairs[i].length
    /\ DOMAIN lengths_codes = DOMAIN base_codes
    /\ \A l \in DOMAIN base_codes : lengths_codes[l] = base_codes[l] + CountOfLength(l)
    /\ symbol_length_pairs = RFCPairs => lookup_table = RFCTable

\* C3 as stated: each record (symbol, L) gets, in input order, a code of
\* exactly L bits that spells, most significant bit first, base code of L +
\* number of earlier records of length L; only the base code of L advances;
\* the RFC records give the RFC table.
C3_CodeIsBasePlusRank ==
    lut_pc = "built" =>
        /\ AssignmentShape
        /\ \A i \in PairIndices :
              LastOfSymbol(i) =>
                  BitsValue(lookup_table[symbol_length_pairs[i].symbol])
                      = base_codes[symbol_length_pairs[i].length] + EarlierSameLength(i)

\* C3 amended: the code of a record (symbol, L) is the L low-order bits, most
\* significant first, of base code of L + number of earlier records of length
\* L (the whole value whenever it fits in L bits).
C3_CodeIsLowBitsOfBasePlusRank ==
    lut_pc = "built" =>
        /\ AssignmentShape
        /\ \A i \in PairIndices :
              LastOfSymbol(i) =>
                  BitsValue(lookup_table[symbol_length_pairs[i].symbol])
                      = (base_codes[symbol_length_pairs[i].length] + EarlierSameLength(i))
                            % Pow2(symbol_length_pairs[i].length)

\* the RFC records have been given the RFC table
C3_Witness ==
    /\ lut_pc = "built"
    /\ symbol_length_pairs = RFCPairs
    /\ lookup_table = RFCTable
    /\ lengths_codes = (0 :> 0) @@ (2 :> 1) @@ (3 :> 7) @@ (4 :> 16)

\* C4: a record of length 0 is skipped: after build_huffman_lut the table has
\* no key for a symbol that appears only in length-0 records.
C4_ZeroLengthSkipped ==
    lut_pc = "built" =>
        \A s \in SymbolType :
            (/\ \E i \in PairIndices : symbol_length_pairs[i].symbol = s
             /\ \A i \in PairIndices :
                   symbol_length_pairs[i].symbol = s => symbol_length_pairs[i].length = 0)
            => s \notin DOMAIN lookup_table

(***************************************************************************)
(* Properties of the tree and of decode (huffman/huffman_tree.rs,          *)
(* huffman/huffman_node.rs).                                               *)
(***************************************************************************)

\* the leaves of a tree, each with its root-to-leaf path (0 = left child,
\* 1 = right child)
RECURSIVE LeafPaths(_, _)
LeafPaths(node, path) ==
    IF node.kind = "Inode"
    THEN LeafPaths(node.left_child, Append(path, 0))
         \cup LeafPaths(node.right_child, Append(path, 1))
    ELSE {[path |-> path, symbol |-> node.symbol]}

C6_InsufficientSymbols ==
    tree_pc \in {"panic", "loop", "done"} =>
        (tree_pc = "panic"
            <=> Cardinality({symbol_weight_pairs[i].symbol :
                                i \in 1..Len(symbol_weight_pairs)}) < 2)

\* C7: no failure of decompress, build_huffman_tree or decode aborts: every
\* failure is a returned error.
C7_NoAbort ==
    /\ outcome.kind # "panic"
    /\ tree_pc # "panic"
    /\ decoded.kind # "panic"

\* C10: the code lengths returned by build_symbol_length_pairs, one per leaf
\* and equal to the depth of the leaf, satisfy the Kraft equality, however
\* the ties between equal weights were resolved.
C10_KraftEquality ==
    (scenario = "tree" /\ lut_pc \in {"ready", "built"}) =>
        /\ Len(symbol_length_pairs) = Cardinality(LeafPaths(tree, <<>>))
        /\ {<<symbol_length_pairs[i].symbol, symbol_length_pairs[i].length>> :
                i \in PairIndices}
           = {<<leaf.symbol, Len(leaf.path)>> : leaf \in LeafPaths(tree, <<>>)}
        /\ KraftSum(symbol_length_pairs, 1) = Pow2(LongestLength)

\* the lengths 1, 2, 2 have been extracted from a tree of three records of
\* equal weight
C10_Witness ==
    /\ scenario = "tree"
    /\ lut_pc = "ready"
    /\ Len(symbol_length_pairs) = 3
    /\ LongestLength = 2
    /\ \A i, j \in 1..Len(symbol_weight_pairs) :
          symbol_weight_pairs[i].weight = symbol_weight_pairs[j].weight

(***************************************************************************)
(* Properties of the header parser (configuration.rs).                     *)
(***************************************************************************)

\* the fields of the fixed header that have a required value, by position
Required == (1 :> 31) @@ (2 :> 139) @@ (3 :> 8) @@ (4 :> 8) @@ (10 :> 3)

FieldError ==
    (1 :> "ID1 does not match") @@ (2 :> "ID2 does not match")
    @@ (3 :> "Only 0x8 is a valid CM standing for deflate")
    @@ (4 :> "Only 0x8 is a valid FLG standing for original filename")
    @@ (10 :> "Only 0x3 is a valid OS standing for Unix")

\* the position of the parser before each of the ten bytes
FieldPc == <<"id1", "id2", "cm", "flg", "mtime", "mtime", "mtime", "mtime", "xfl", "os">>

ValidAt(k) == k \in DOMAIN Required => consumed[k] = Required[k]

FirstInvalidAt(k) ==
    /\ Len(consumed) >= k
    /\ consumed[k] # Required[k]
    /\ \A j \in 1..(k - 1) : ValidAt(j)

\* C8: the fixed fields are validated in the order ID1, ID2, CM, FLG, MTIME
\* (4 bytes, any value), XFL (any value), OS; the parser stops at the first
\* field whose value is invalid, reports that field's error and consumes no
\* byte beyond that field.
C8_HeaderOrder ==
    scenario = "gzip" =>
        /\ \A k \in DOMAIN Required :
              /\ FirstInvalidAt(k) <=> outcome = Err(FieldError[k])
              /\ FirstInvalidAt(k) => Len(consumed) = k /\ gz_pc = "done"
        /\ gz_pc \in {FieldPc[k] : k \in 1..10} =>
              /\ Len(consumed) < 10
              /\ gz_pc = FieldPc[Len(consumed) + 1]
              /\ \A j \in 1..Len(consumed) : ValidAt(j)
        /\ outcome.kind = "Err" => Len(consumed) \notin 5..9

\* correct magic and CM = 7: the error of CM, and FLG has not been read
C8_Witness ==
    /\ consumed = <<31, 139, 7>>
    /\ outcome = Err("Only 0x8 is a valid CM standing for deflate")
    /\ gz_pc = "done"

\* the block header byte has been read
BlockHeaderRead ==
    \/ outcome.kind = "Ok"
    \/ outcome.what = "This implementation only supports one block compressed files for now"
    \/ outcome.what = "BTYPE is 11"

\* C9: of the block header byte only the three low-order bits count: bit 0
\* is BFINAL and bits 1-2 are BTYPE = bit1 + 2*bit2; BFINAL = 0 is the
\* multi-block failure whatever BTYPE is; with BFINAL = 1, BTYPE 0 is stored,
\* 1 is fixed Huffman, 2 is dynamic Huffman and 3 is the reserved failure.
C9_BlockHeader ==
    (scenario = "gzip" /\ BlockHeaderRead) =>
        LET header == consumed[Len(consumed)]
            bfinal == header % 2
            btype == (header \div 2) % 4
        IN IF bfinal = 0
           THEN outcome.what = "This implementation only supports one block compressed files for now"
           ELSE CASE btype = 0 -> outcome.kind = "Ok" /\ block_type = "no compression"
                  [] btype = 1 -> outcome.kind = "Ok" /\ block_type = "fixed Huffman codes"
                  [] btype = 2 -> outcome.kind = "Ok" /\ block_type = "dynamic Huffman codes"
                  [] btype = 3 -> outcome.what = "BTYPE is 11"

(***************************************************************************)
(* Properties of the tree builder (huffman/huffman_tree.rs).               *)
(***************************************************************************)

\* a step of the merge loop: the forest changes and the loop goes on
MergeStep == tree_pc = "loop" /\ tree_pc' = "loop" /\ forest' # forest

\* the forest without its items at the two distinct indices i and j
Without(heap, i, j) == IF i < j THEN RemoveAt(RemoveAt(heap, j), i)
                       ELSE RemoveAt(RemoveAt(heap, i), j)

\* the merge step took left and right out of the forest, both of them no
\* heavier than any item it left there
TookTwoLightest(left, right, rest) ==
    /\ \E i, j \in 1..Len(forest) :
          /\ i # j
          /\ forest[i] = left
          /\ forest[j] = right
          /\ Without(forest, i, j) = rest
    /\ \A k \in 1..Len(rest) :
          weight(left) <= weight(rest[k]) /\ weight(right) <= weight(rest[k])

\* the tree expected by tests::simple_forest
SimpleTree == Inode(Inode(Lnode(67, 5), Lnode(65, 10), 15), Lnode(66, 20), 35)

\* C11: each iteration of the merge loop removes two items of minimum weight
\* from the forest (no item left is lighter than either), makes the first
\* removed item the left and the second the right child of a new internal
\* node whose cached weight is the sum of the two weights, and reinserts that
\* node, so the left child is never the heavier one; the records A:10, B:20,
\* C:5 produce the tree ((C, A), B) with the weights 15 and 35.
C11_MergeTwoLightest ==
    /\ [][MergeStep =>
            LET new_tree == forest'[Len(forest')]
                rest == SubSeq(forest', 1, Len(forest') - 1)
            IN /\ new_tree.kind = "Inode"
               /\ TookTwoLightest(new_tree.left_child, new_tree.right_child, rest)
               /\ weight(new_tree.left_child) <= weight(new_tree.right_child)
               /\ new_tree.cached_weight
                      = weight(new_tree.left_child) + weight(new_tree.right_child)]_vars
    /\ []((symbol_weight_pairs = SimpleForest /\ tree_pc = "done") => tree = SimpleTree)

\* the tree of the records A:10, B:20, C:5 has been returned: two merges,
\* each of them with a lighter left child
C11_Witness ==
    /\ symbol_weight_pairs = SimpleForest
    /\ tree_pc = "done"
    /\ tree.kind = "Inode"
    /\ tree.left_child.kind = "Inode"
    /\ weight(tree.left_child.left_child) < weight(tree.left_child.right_child)

RECURSIVE WeightsCached(_)
\* every Inode of the tree has two children and caches the sum of their
\* weights
WeightsCached(node) ==
    \/ node.kind = "Lnode"
    \/ /\ node.kind = "Inode"
       /\ DOMAIN node = {"kind", "left_child", "right_child", "cached_weight"}
       /\ node.cached_weight = weight(node.left_child) + weight(node.right_child)
       /\ WeightsCached(node.left_child)
       /\ WeightsCached(node.right_child)

RECURSIVE Leaves(_)
\* the records of the leaves of the tree, from left to right
Leaves(node) ==
    IF node.kind = "Lnode"
    THEN <<SymbolWeightPair(node.symbol, node.weight)>>
    ELSE Leaves(node.left_child) \o Leaves(node.right_child)

RECURSIVE ForestLeaves(_)
\* the records of the leaves of all the trees of the forest
ForestLeaves(heap) ==
    IF heap = <<>> THEN <<>>
    ELSE Leaves(Head(heap)) \o ForestLeaves(Tail(heap))

CountIn(records, x) == Cardinality({i \in 1..Len(records) : records[i] = x})

\* the two sequences hold the same records the same number of times
SameRecords(a, b) ==
    /\ Len(a) = Len(b)
    /\ \A i \in 1..Len(a) : CountIn(a, a[i]) = CountIn(b, a[i])

RECURSIVE SumOfWeights(_)
SumOfWeights(pairs) ==
    IF pairs = <<>> THEN 0 ELSE Head(pairs).weight + SumOfWeights(Tail(pairs))

\* the forest of the loop, or the returned tree as a forest of one item
CurrentForest == IF tree_pc = "loop" THEN forest ELSE <<tree>>

\* C12: in every forest state of build_huffman_tree and in the tree it
\* returns, every internal node has two children and caches the sum of their
\* weights (the root of the returned tree weighs the sum of all the input
\* weights), and the (symbol, weight) leaves of the whole forest are the
\* input records, each as many times as the input holds it.
C12_ForestInvariant ==
    tree_pc \in {"loop", "done"} =>
        /\ \A k \in 1..Len(CurrentForest) : WeightsCached(CurrentForest[k])
        /\ SameRecords(ForestLeaves(CurrentForest), symbol_weight_pairs)
        /\ tree_pc = "done" => weight(tree) = SumOfWeights(symbol_weight_pairs)

\* a tree has been returned for three records, two of them the same record
\* (same symbol, same weight) and not all of weight 0
C12_Witness ==
    /\ tree_pc = "done"
    /\ Len(symbol_weight_pairs) = 3
    /\ symbol_weight_pairs[1] = symbol_weight_pairs[2]
    /\ weight(tree) > 0

RECURSIVE InodeCount(_)
\* the number of internal nodes of the tree: one per merge that built it
InodeCount(node) ==
    IF node.kind = "Lnode" THEN 0
    ELSE 1 + InodeCount(node.left_child) + InodeCount(node.right_child)

RECURSIVE MergesDone(_)
\* the number of merges that built the forest
MergesDone(heap) ==
    IF heap = <<>> THEN 0 ELSE InodeCount(Head(heap)) + MergesDone(Tail(heap))

\* C13: for n >= 2 records the merge loop terminates: each iteration makes
\* the forest one item smaller, the loop performs exactly n - 1 merges and
\* ends with exactly one item in the forest, which is returned as the root.
C13_LoopTerminates ==
    /\ [][MergeStep => Len(forest') = Len(forest) - 1]_vars
    /\ [](tree_pc = "loop" =>
              MergesDone(forest) = Len(symbol_weight_pairs) - Len(forest))
    /\ [][(tree_pc = "loop" /\ tree_pc' = "done") =>
              /\ Len(forest) = 1
              /\ tree' = forest[1]
              /\ InodeCount(tree') = Len(symbol_weight_pairs) - 1]_vars
    /\ (Len(symbol_weight_pairs) >= 2) ~> (tree_pc = "done")

\* the loop has ended for three records: two merges
C13_Witness ==
    /\ tree_pc = "done"
    /\ Len(symbol_weight_pairs) = 3
    /\ InodeCount(tree) = 2
    /\ forest = <<>>

(***************************************************************************)
(* The end of the buffer (configuration.rs: decompress).                   *)
(***************************************************************************)

\* the reports of a field that is absent
MissingMessages ==
    {"This file does not contain ID1", "This file does not contain ID2",
     "This file does not contain CM", "This file does not contain FLG",
     "This file does not contain MTIME", "This file does not contain XFL",
     "This file does not contain OS", "This block does not contain an header"}

\* bytes.next() has returned None and every byte read before is valid for
\* its field
EndedEarly ==
    /\ scenario = "gzip"
    /\ exhausted
    /\ \A j \in 1..Len(consumed) : ValidAt(j)
    /\ from_utf8_ok(filename)

\* C14: when every byte present is valid for its field but the buffer ends
\* too early (inside the 10 fixed bytes, before the zero byte of the
\* filename, or right after it), the parser fails with the report of a
\* missing field and with no other outcome; a filename that reaches the end
\* of the buffer without a zero byte is never accepted as a filename.
C14_TruncatedHeader ==
    EndedEarly =>
        /\ gz_pc = "done"
        /\ outcome.kind \in {"Err", "panic"}
        /\ outcome.what \in MissingMessages

(***************************************************************************)
(* The table built from a tree (build_huffman_tree, then                   *)
(* build_symbol_length_pairs, then build_huffman_lut).                     *)
(***************************************************************************)

DistinctRecordSymbols ==
    \A i, j \in 1..Len(symbol_weight_pairs) :
        i # j => symbol_weight_pairs[i].symbol # symbol_weight_pairs[j].symbol

\* C15: for every tree built from records with pairwise-distinct symbols
\* and non-negative weights, the table built from the symbol-length pairs of
\* the tree gives every symbol a code as long as the depth of its leaf, and
\* no code of the table is a prefix of another one.
C15_TableOfTree ==
    (scenario = "tree" /\ lut_pc = "built" /\ DistinctRecordSymbols) =>
        /\ \A leaf \in LeafPaths(tree, <<>>) :
              /\ leaf.symbol \in DOMAIN lookup_table
              /\ Len(lookup_table[leaf.symbol]) = Len(leaf.path)
        /\ \A s, t \in DOMAIN lookup_table :
              s # t => ~IsPrefix(lookup_table[s], lookup_table[t])

(***************************************************************************)
(* The two copies of the builder (lib.rs and huffman/huffman_tree.rs).     *)
(***************************************************************************)

RECURSIVE NodeWeights(_)
\* the weights of all the nodes of the tree, leaves and internal nodes
NodeWeights(node) ==
    IF node.kind = "Lnode" THEN <<node.weight>>
    ELSE <<node.cached_weight>> \o NodeWeights(node.left_child)
                                \o NodeWeights(node.right_child)

\* the input weights and all the merged sums of the tree differ pairwise
NoTies(node) ==
    \A i, j \in 1..Len(NodeWeights(node)) :
        i # j => NodeWeights(node)[i] # NodeWeights(node)[j]

\* C16: for every input of n >= 2 records whose weights and intermediate
\* merged sums are pairwise distinct, build_huffman_tree of lib.rs returns
\* the same tree as build_huffman_tree of huffman/huffman_tree.rs.
C16_BuildersAgree ==
    (tree_pc = "done" /\ lib_pc = "done" /\ NoTies(tree) /\ NoTies(lib_tree)) =>
        lib_tree = tree

(***************************************************************************)
(* Optimality of the tree (huffman/huffman_tree.rs).                       *)
(***************************************************************************)

RECURSIVE WeightedPathLength(_, _)
\* the sum over the leaves below node of weight * depth, node being at
\* the given depth
WeightedPathLength(node, depth) ==
    IF node.kind = "Lnode" THEN node.weight * depth
    ELSE WeightedPathLength(node.left_child, depth + 1)
         + WeightedPathLength(node.right_child, depth + 1)

RECURSIVE PathLengths(_)
\* the weighted path lengths of all the binary trees whose internal nodes
\* have two children and whose leaves carry the weights ws: such a tree is
\* built by joining two of the items under a new node, in any order and
\* whatever their weights, until one item is left, and its weighted path
\* length is the sum of the weights of the new nodes
PathLengths(ws) ==
    IF Len(ws) <= 1 THEN {0}
    ELSE LET joined == {p \in (1..Len(ws)) \X (1..Len(ws)) : p[1] < p[2]}
         IN UNION {{ws[p[1]] + ws[p[2]] + c :
                       c \in PathLengths(Append(Without(ws, p[1], p[2]),
                                                ws[p[1]] + ws[p[2]]))} :
                   p \in joined}

LeastPathLength(ws) == MinOf(PathLengths(ws))

\* build_huffman_tree has returned and nothing has been done with the tree
JustReturned ==
    /\ tree_pc = "done"
    /\ decoded = NoDecode
    /\ lut_pc = "idle"

InputWeights == [i \in 1..Len(symbol_weight_pairs) |-> symbol_weight_pairs[i].weight]

\* C17: for n >= 2 records of non-negative weights and every resolution of
\* the ties, the returned tree has the least weighted path length (sum over
\* the leaves of weight * depth) of all binary trees whose internal nodes
\* have two children and whose leaves are the input records; so all the
\* resolutions of the ties give the same weighted path length.
C17_LeastPathLength ==
    JustReturned =>
        WeightedPathLength(tree, 0) = LeastPathLength(InputWeights)

\* the tie of the records 1, 1, 1, 2 has been resolved so that the returned
\* tree has a leaf of depth 1; the other resolution has all leaves at depth 2
C17_Witness ==
    /\ symbol_weight_pairs = TiedForest
    /\ tree_pc = "done"
    /\ \E leaf \in LeafPaths(tree, <<>>) : Len(leaf.path) = 1
    /\ WeightedPathLength(tree, 0) = 10

(***************************************************************************)
(* Config::new (configuration.rs).                                         *)
(***************************************************************************)

EndsWith(text, ending) ==
    /\ Len(text) >= Len(ending)
    /\ SubSeq(text, Len(text) - Len(ending) + 1, Len(text)) = ending

\* C18: Config::new returns Err("not enough arguments") for fewer than 2
\* arguments; for every list of at least 2 arguments it returns Ok without
\* aborting, whatever the length of the file name args[1] (shorter than
\* ".rgz" and empty included), with the mode Decompression exactly when the
\* file name ends with ".rgz" and Compression otherwise.
C18_ConfigNew ==
    (scenario = "config" /\ config # NoConfig) =>
        IF Len(args) < 2
        THEN config = Err("not enough arguments")
        ELSE config = OkConfig(args[2],
                               IF EndsWith(args[2], COMPRESSED_FILE_EXTENSION)
                               THEN "Decompression" ELSE "Compression")

====
